---- MODULE Spec2Model ----
(***************************************************************************)
(* devlib/utils/android.py: the AdbConnection life cycle (Spec), one call  *)
(* of execute() through adb_shell() (ShellSpec), one call of               *)
(* adb_background_shell() (BgSpec, BgLive), two of them side by side in    *)
(* the device's process table (PsSpec), one call of adb_connect()          *)
(* (ConnectSpec) and one call of adb_get_device() (GetDeviceSpec).         *)
(*                                                                         *)
(* Every AdbConnection object is driven by its own thread.  The threads    *)
(* share the class attributes AdbConnection.active_connections (a lock and *)
(* a per-device count) and AdbConnection._connected_as_root (the cached    *)
(* root status of each device), and they share the devices themselves,     *)
(* whose adbd runs as root or not.  One step of the model is one stretch   *)
(* of code between two points where another thread can observe or change   *)
(* the shared state: a `with lock:` block is entered in one step (the lock *)
(* is taken and the shared value read) and left in the next (the value is  *)
(* written and the lock released); every adb command is a step of its own. *)
(***************************************************************************)
EXTENDS Integers, FiniteSets, Sequences, TLC

\* Bounds of the model: the number of AdbConnection objects (threads) and
\* the number of device identities they may name.
NumConns == 2
NumDevices == 2

Conns == 1..NumConns
Devices == 1..NumDevices

\* The value of a connection attribute that is not set yet.
NoDevice == 0
\* threading.Lock() of active_connections when no thread holds it.
Unlocked == 0

\* _connected_as_root = defaultdict(lambda: None): None, True or False.
None == "None"
Status(state) == IF state THEN "root" ELSE "nonroot"

\* su_cmd = 'su -c {}' (class attribute) and 'echo {} | su' (_setup_su).
SuModern == "su -c {}"
SuLegacy == "echo {} | su"

VARIABLES
    nr_active,              \* active_connections[1]: device -> count
    lock,                   \* active_connections[0]: the thread holding it
    _connected_as_root,     \* device -> None / root / nonroot
    adbd_root,              \* device -> whether its adbd runs as root
    production,             \* device -> whether it is a production build
    pc,                     \* connection -> where its thread stands
    device,                 \* self.device
    adb_as_root,            \* self.adb_as_root
    _restore_to_adb_root,   \* self._restore_to_adb_root
    su_cmd,                 \* self.su_cmd
    nr_read,                \* the count a thread read inside `with lock:`
    disconnect,             \* _close's local `disconnect`
    enable,                 \* _adb_root's argument
    caller,                 \* who called _adb_root: __init__, _close, user
    result,                 \* connected_as_root's local `result` ('uid=0(' in it)
    sent,                   \* what the last step sent to the transport
    escalated               \* connection -> its own adb_root(True) went through

\* The variables of the connection life cycle.
conn_vars == <<nr_active, lock, _connected_as_root, adbd_root, production,
               pc, device, adb_as_root, _restore_to_adb_root, su_cmd,
               nr_read, disconnect, enable, caller, result, sent, escalated>>

\* One call of execute() -> adb_shell(), followed through its stages.
VARIABLES
    stage,                  \* where the call stands
    check_exit_code,        \* execute's argument
    will_succeed,           \* execute's argument
    capture,                \* how the transport's capture came about
    printed,                \* what the command printed on the device
    status,                 \* the exit status of the command on the device
    raw_output,             \* adb_shell's local: stdout of `adb shell`
    error,                  \* adb_shell's local: stderr of `adb shell`
    output,                 \* adb_shell's local after the split
    exit_code,              \* adb_shell's local after the split
    shell_res,              \* how adb_shell ended
    exec_res                \* how execute ended

shell_vars == <<stage, check_exit_code, will_succeed, capture, printed,
                status, raw_output, error, output, exit_code, shell_res,
                exec_res>>

\* One call of adb_background_shell(), from Popen to its return or raise.
VARIABLES
    orig_command,           \* the command to run in the background
    bg_pc,                  \* where the call stands
    tries,                  \* iterations of `for _ in range(5)` begun
    remote,                 \* pids of the device's sh -c layers with the uuid
    seen,                   \* attempt by attempt: the pids listed, the
                            \* shape of the capture, the status of kill
    excep,                  \* adb_background_shell's local `excep`
    bg_res,                 \* how adb_background_shell ended
    popens,                 \* how many times Popen started the command
    proc,                   \* where the launched process stands
    continued               \* a discovery has sent SIGCONT to the process

bg_vars == <<orig_command, bg_pc, tries, remote, seen, excep, bg_res, popens,
             proc, continued>>

\* Two calls of adb_background_shell() on one device, seen from the
\* device's process table.
VARIABLES
    table,                  \* the device's processes: pid and command line
    ps_pc,                  \* uuid -> where its launch stands
    helpers,                \* uuid -> the processes of its running find_pid
    listing,                \* uuid -> what its last find_pid matched
    signalled,              \* uuid -> every process it sent SIGCONT to
    found,                  \* uuid -> the pid it returns (0: none yet)
    rounds,                 \* uuid -> runs of find_pid so far
    snapshot                \* uuid -> what ps printed in its last find_pid

ps_vars == <<table, ps_pc, helpers, listing, signalled, found, rounds,
             snapshot>>

\* One call of adb_connect().
VARIABLES
    attempts,               \* adb_connect's argument
    over_ip,                \* "." in device: the device is reached over IP
    co_pc,                  \* where the call stands
    co_tries,               \* adb_connect's local `tries`
    co_output,              \* adb_connect's local `output`
    cycles,                 \* disconnect-then-connect cycles run so far
    pings,                  \* calls of _ping so far
    co_res                  \* how adb_connect ended

co_vars == <<attempts, over_ip, co_pc, co_tries, co_output, cycles, pings,
             co_res>>

\* One construction of AdbConnection with device=None: adb_get_device().
VARIABLES
    timeout,                \* __init__'s argument, passed on to adb_get_device
    self_timeout,           \* self.timeout
    attached,               \* the serials `adb devices` would list now
    gd_output,              \* adb_get_device's local `output`
    elapsed,                \* time.time() - start
    polls,                  \* runs of `adb devices` so far
    gd_pc,                  \* where adb_get_device stands
    gd_res                  \* how adb_get_device ended

gd_vars == <<timeout, self_timeout, attached, gd_output, elapsed, polls,
             gd_pc, gd_res>>

vars == <<conn_vars, shell_vars, bg_vars, ps_vars, co_vars, gd_vars>>

\* The variables each specification leaves alone.
outside_conn == <<shell_vars, bg_vars, ps_vars, co_vars, gd_vars>>
outside_shell == <<conn_vars, bg_vars, ps_vars, co_vars, gd_vars>>
outside_bg == <<conn_vars, shell_vars, ps_vars, co_vars, gd_vars>>
outside_ps == <<conn_vars, shell_vars, bg_vars, co_vars, gd_vars>>
outside_co == <<conn_vars, shell_vars, bg_vars, ps_vars, gd_vars>>
outside_gd == <<conn_vars, shell_vars, bg_vars, ps_vars, co_vars>>

\* How a call ended: by returning `output`, or by raising `kind` (with the
\* returncode, output and stderr a process-exit error carries).
Outcome(kind, returncode, out, err) ==
    [kind |-> kind, returncode |-> returncode, output |-> out, stderr |-> err]
NoOutcome == Outcome("none", 0, <<>>, <<>>)

\* No call of execute() is under way.
NoCall ==
    /\ stage = "idle"
    /\ check_exit_code = TRUE
    /\ will_succeed = FALSE
    /\ capture = "none"
    /\ printed = <<>>
    /\ status = 0
    /\ raw_output = <<>>
    /\ error = <<>>
    /\ output = <<>>
    /\ exit_code = <<>>
    /\ shell_res = NoOutcome
    /\ exec_res = NoOutcome

\* How adb_background_shell ended: it returned (p, pid), or raised `kind`
\* with a message naming `command`.
Ended(kind, pid, command) == [kind |-> kind, pid |-> pid, command |-> command]
NotEnded == Ended("none", 0, "")

\* No call of adb_background_shell() is under way.
NoLaunch ==
    /\ orig_command = ""
    /\ bg_pc = "idle"
    /\ tries = 0
    /\ remote = {}
    /\ seen = <<>>
    /\ excep = "None"
    /\ bg_res = NotEnded
    /\ popens = 0
    /\ proc = "none"
    /\ continued = FALSE

\* uuid.uuid4().hex of the two launches.
Uuids == {"a1", "b2"}

\* No launch is looked at from the process table.
NoListing ==
    /\ table = {}
    /\ ps_pc = [u \in Uuids |-> "idle"]
    /\ helpers = [u \in Uuids |-> {}]
    /\ listing = [u \in Uuids |-> {}]
    /\ signalled = [u \in Uuids |-> {}]
    /\ found = [u \in Uuids |-> 0]
    /\ rounds = [u \in Uuids |-> 0]
    /\ snapshot = [u \in Uuids |-> {}]

\* How adb_get_device ended: it returned `serial`, or raised `kind`; a
\* HostError about too many devices names their count.
Got(kind, serial, count) == [kind |-> kind, serial |-> serial, count |-> count]

\* No call of adb_get_device() is followed step by step.
NoGetDevice ==
    /\ timeout = 0
    /\ self_timeout = 0
    /\ attached = {}
    /\ gd_output = <<>>
    /\ elapsed = 0
    /\ polls = 0
    /\ gd_pc = "idle"
    /\ gd_res = Got("none", "", 0)

\* No call of adb_connect() is followed step by step.
NoConnect ==
    /\ attempts = 0
    /\ over_ip = FALSE
    /\ co_pc = "idle"
    /\ co_tries = 0
    /\ co_output = "None"
    /\ cycles = 0
    /\ pings = 0
    /\ co_res = "none"

shared == <<nr_active, lock, _connected_as_root, adbd_root>>
attrs == <<device, adb_as_root, _restore_to_adb_root, su_cmd>>
toggle == <<enable, caller>>

\* What the last step did at the transport and how it ended: the thread, its
\* device, the adb command ("none" when no command was sent), the command's
\* exit status and output, whether the command was wrapped in su_cmd, and
\* the exception the step raised ("" when it raised none).
Nothing == [by |-> 0, dev |-> NoDevice, cmd |-> "none", exit |-> 0,
            out |-> "", su |-> FALSE, raised |-> ""]
Sent(c, cmd, exit, out, su, raised) ==
    [by |-> c, dev |-> device[c], cmd |-> cmd, exit |-> exit, out |-> out,
     su |-> su, raised |-> raised]

\* The two messages of AdbRootError in _adb_root.
Busy == "AdbRootError: Can only restart adb server if no other connection is active"
Refused == "AdbRootError"

\* The states of a connection whose construction has returned and whose
\* close() has not been called: it is open.
IsOpen(c) ==
    \/ pc[c] = "open"
    \/ pc[c] \in {"root_check", "root_cmd"} /\ caller[c] = "user"

----------------------------------------------------------------------------
(* The shared lock. *)

LockFreeAlways == TRUE

\* `with lock:` can be entered when no thread holds the lock.
LockFree == lock = Unlocked

----------------------------------------------------------------------------
(* Construction: AdbConnection.__init__ *)

\* No AdbConnection object exists yet.
NoConnection ==
    /\ nr_active = [d \in Devices |-> 0]
    /\ lock = Unlocked
    /\ _connected_as_root = [d \in Devices |-> None]
    /\ pc = [c \in Conns |-> "new"]
    /\ device = [c \in Conns |-> NoDevice]
    /\ adb_as_root = [c \in Conns |-> FALSE]
    /\ _restore_to_adb_root = [c \in Conns |-> FALSE]
    /\ su_cmd = [c \in Conns |-> SuModern]
    /\ nr_read = [c \in Conns |-> 0]
    /\ disconnect = [c \in Conns |-> FALSE]
    /\ enable = [c \in Conns |-> FALSE]
    /\ caller = [c \in Conns |-> "none"]
    /\ result = [c \in Conns |-> FALSE]
    /\ sent = Nothing
    /\ escalated = [c \in Conns |-> FALSE]

Init ==
    /\ NoConnection
    /\ production \in [Devices -> BOOLEAN]
    /\ adbd_root \in {f \in [Devices -> BOOLEAN] :
                        \A d \in Devices : production[d] => ~f[d]}
    /\ NoCall
    /\ NoLaunch
    /\ NoListing
    /\ NoConnect
    /\ NoGetDevice

\* nr_active[self.device] += 1
Incr(n) == n + 1

\* __init__ up to the read of `nr_active[self.device] += 1` under the lock.
InitEnter(c) ==
    /\ pc[c] = "new"
    /\ LockFree
    /\ \E d \in Devices, as_root \in BOOLEAN :
        /\ device' = [device EXCEPT ![c] = d]
        /\ adb_as_root' = [adb_as_root EXCEPT ![c] = as_root]
        /\ nr_read' = [nr_read EXCEPT ![c] = nr_active[d]]
    /\ _restore_to_adb_root' = [_restore_to_adb_root EXCEPT ![c] = FALSE]
    /\ lock' = c
    /\ pc' = [pc EXCEPT ![c] = "init_incr"]
    /\ sent' = Nothing
    /\ escalated' = [escalated EXCEPT ![c] = FALSE]
    /\ UNCHANGED <<nr_active, _connected_as_root, adbd_root, production,
                   su_cmd, disconnect, toggle, result>>
    /\ UNCHANGED outside_conn

\* The write of `+= 1` and the end of the `with lock:` block; then the
\* branch on self.adb_as_root.
InitIncr(c) ==
    /\ pc[c] = "init_incr"
    /\ nr_active' = [nr_active EXCEPT ![device[c]] = Incr(nr_read[c])]
    /\ nr_read' = [nr_read EXCEPT ![c] = 0]
    /\ lock' = Unlocked
    /\ IF adb_as_root[c]
       THEN /\ pc' = [pc EXCEPT ![c] = "root_check"]
            /\ enable' = [enable EXCEPT ![c] = TRUE]
            /\ caller' = [caller EXCEPT ![c] = "init"]
       ELSE /\ pc' = [pc EXCEPT ![c] = "connect"]
            /\ UNCHANGED toggle
    /\ sent' = Nothing
    /\ UNCHANGED <<_connected_as_root, adbd_root, production, attrs,
                   disconnect, result>>
    /\ UNCHANGED escalated
    /\ UNCHANGED outside_conn

----------------------------------------------------------------------------
(* Root toggle: AdbConnection.adb_root / _adb_root *)

CanRootLax(n) == n <= 2
CanRootStrict(n) == n < 1

\* can_root = nr_active[self.device] <= 1
CanRoot(n) == n <= 1

is_rooted_never(out) == FALSE

\* is_rooted(out): 'adbd is already running as root' in out
is_rooted(out) == out = "already_root"

\* What `adb root` / `adb unroot` answers on device d: an exit status and the
\* output.  adbd that already runs as root says so (with either exit status,
\* depending on the adb version); a production build refuses with exit
\* status 0; otherwise adbd restarts in the state asked for.  Any command
\* can fail for a reason of the transport.
AdbRootReply(d, cmd) ==
    {[exit |-> 1, out |-> "error"]} \cup
    IF cmd = "root"
    THEN IF adbd_root[d]
         THEN {[exit |-> e, out |-> "already_root"] : e \in {0, 1}}
         ELSE IF production[d]
              THEN {[exit |-> 0, out |-> "production"]}
              ELSE {[exit |-> 0, out |-> "restarting"]}
    ELSE IF adbd_root[d]
         THEN {[exit |-> 0, out |-> "restarting"]}
         ELSE {[exit |-> e, out |-> "not_root"] : e \in {0, 1}}

\* The state of adbd on the device after the command.
AdbdAfter(d, cmd, reply) ==
    IF reply.out = "restarting" THEN cmd = "root" ELSE adbd_root[d]

AdbRootOutcomeNoProductionCheck(exit, out) ==
    IF exit # 0
    THEN [raise |-> ~is_rooted(out), was_rooted |-> is_rooted(out)]
    ELSE [raise |-> FALSE, was_rooted |-> is_rooted(out)]

\* The try / except / else of _adb_root around adb_command: whether
\* AdbRootError is raised, and `was_rooted` otherwise.
AdbRootOutcome(exit, out) ==
    IF exit # 0
    THEN [raise |-> ~is_rooted(out), was_rooted |-> is_rooted(out)]
    ELSE IF out = "production"
         THEN [raise |-> TRUE, was_rooted |-> is_rooted(out)]
         ELSE [raise |-> FALSE, was_rooted |-> is_rooted(out)]

SetAllDevices(cache, d, state) == [x \in Devices |-> Status(state)]

\* AdbConnection._connected_as_root[self.device] = state
SetConnectedAsRoot(cache, d, state) == [cache EXCEPT ![d] = Status(state)]

AfterAdbRootPropagate(c, raised) ==
    CASE caller[c] = "init" -> IF raised THEN "failed" ELSE "connect"
      [] caller[c] = "close" -> IF raised THEN "closed" ELSE "disconnect"
      [] OTHER -> "open"

\* Where the thread goes when _adb_root returns or raises AdbRootError:
\* __init__ swallows the error and goes on to adb_connect; in _close the
\* error leaves _close before adb_disconnect; a user gets the connection
\* back.
AfterAdbRoot(c, raised) ==
    CASE caller[c] = "init" -> "connect"
      [] caller[c] = "close" -> IF raised THEN "closed" ELSE "disconnect"
      [] OTHER -> "open"

\* adb_root(enable) called by the owner of an open connection.
AdbRoot(c) ==
    /\ pc[c] = "open"
    /\ \E en \in BOOLEAN : enable' = [enable EXCEPT ![c] = en]
    /\ caller' = [caller EXCEPT ![c] = "user"]
    /\ pc' = [pc EXCEPT ![c] = "root_check"]
    /\ sent' = Nothing
    /\ UNCHANGED <<shared, production, attrs, nr_read, disconnect, result>>
    /\ UNCHANGED escalated
    /\ UNCHANGED outside_conn

\* _adb_root: the `with lock:` block reading can_root, and the raise of
\* AdbRootError('Can only restart adb server if no other connection ...').
RootCheck(c) ==
    /\ pc[c] = "root_check"
    /\ LockFree
    /\ IF CanRoot(nr_active[device[c]])
       THEN /\ pc' = [pc EXCEPT ![c] = "root_cmd"]
            /\ sent' = Nothing
            /\ UNCHANGED toggle
       ELSE /\ pc' = [pc EXCEPT ![c] = AfterAdbRoot(c, TRUE)]
            /\ sent' = Sent(c, "none", 0, "", FALSE, Busy)
            /\ caller' = [caller EXCEPT ![c] = "none"]
            /\ enable' = [enable EXCEPT ![c] = FALSE]
    /\ UNCHANGED <<shared, production, attrs, nr_read, disconnect, result>>
    /\ UNCHANGED escalated
    /\ UNCHANGED outside_conn

\* _adb_root: adb_command(self.device, 'root' | 'unroot'), the handling of
\* its outcome, and the update of the cached root status.
RootCmd(c) ==
    /\ pc[c] = "root_cmd"
    /\ LET d == device[c]
           cmd == IF enable[c] THEN "root" ELSE "unroot"
       IN \E reply \in AdbRootReply(d, cmd) :
            LET o == AdbRootOutcome(reply.exit, reply.out) IN
            /\ adbd_root' = [adbd_root EXCEPT ![d] = AdbdAfter(d, cmd, reply)]
            /\ sent' = Sent(c, cmd, reply.exit, reply.out, FALSE,
                            IF o.raise THEN Refused ELSE "")
            /\ pc' = [pc EXCEPT ![c] = AfterAdbRoot(c, o.raise)]
            /\ escalated' = [escalated EXCEPT
                                ![c] = @ \/ (enable[c] /\ ~o.raise)]
            /\ IF o.raise
               THEN UNCHANGED <<_connected_as_root, _restore_to_adb_root>>
               ELSE /\ _connected_as_root' =
                         SetConnectedAsRoot(_connected_as_root, d, enable[c])
                    /\ _restore_to_adb_root' =
                         IF caller[c] = "init"
                         THEN [_restore_to_adb_root EXCEPT ![c] = o.was_rooted]
                         ELSE _restore_to_adb_root
    /\ caller' = [caller EXCEPT ![c] = "none"]
    /\ enable' = [enable EXCEPT ![c] = FALSE]
    /\ UNCHANGED <<nr_active, lock, production, device, adb_as_root, su_cmd,
                   nr_read, disconnect, result>>
    /\ UNCHANGED outside_conn

----------------------------------------------------------------------------
(* Construction, continued: adb_connect, _setup_ls, _setup_su *)

\* adb_connect(self.device, ...): it returns once _ping succeeds, or raises
\* HostError, which leaves __init__.
AdbConnect(c) ==
    /\ pc[c] = "connect"
    /\ \E ok \in BOOLEAN :
        /\ pc' = [pc EXCEPT ![c] = IF ok THEN "setup_ls" ELSE "failed"]
        /\ sent' = Sent(c, "connect", IF ok THEN 0 ELSE 1, "", FALSE,
                        IF ok THEN "" ELSE "HostError")
    /\ UNCHANGED <<shared, production, attrs, nr_read, disconnect, toggle,
                   result>>
    /\ UNCHANGED escalated
    /\ UNCHANGED outside_conn

\* _setup_ls: `ls -1` with its exit code echoed.  A failing adb command
\* raises HostError; otherwise the echoed code selects self.ls_command,
\* an attribute that no operation of the model reads (it is not a variable).
SetupLs(c) ==
    /\ pc[c] = "setup_ls"
    /\ \E ok \in BOOLEAN :
        /\ pc' = [pc EXCEPT ![c] = IF ok THEN "su_check" ELSE "failed"]
        /\ sent' = Sent(c, "ls -1", IF ok THEN 0 ELSE 1, "", FALSE,
                        IF ok THEN "" ELSE "HostError")
    /\ UNCHANGED <<shared, production, attrs, nr_read, disconnect, toggle,
                   result>>
    /\ UNCHANGED escalated
    /\ UNCHANGED outside_conn

\* connected_as_root: `self._connected_as_root[self.device] is None` is
\* false, so that the cached status is returned without a probe.
Cached(cache, d) == cache[d] # None

\* _setup_su: the read of self.connected_as_root.  With a cached status the
\* property returns it; otherwise it goes on to probe with execute('id').
SuCheck(c) ==
    /\ pc[c] = "su_check"
    /\ pc' = [pc EXCEPT ![c] =
                IF Cached(_connected_as_root, device[c])
                THEN IF _connected_as_root[device[c]] = "root"
                     THEN "open" ELSE "su_try"
                ELSE "probe_run"]
    /\ sent' = Nothing
    /\ UNCHANGED <<shared, production, attrs, nr_read, disconnect, toggle,
                   result>>
    /\ UNCHANGED escalated
    /\ UNCHANGED outside_conn

\* connected_as_root: result = self.execute('id').  The command fails (and
\* the error leaves __init__) or answers the uid adbd runs under.
ProbeRun(c) ==
    /\ pc[c] = "probe_run"
    /\ \/ /\ pc' = [pc EXCEPT ![c] = "failed"]
          /\ sent' = Sent(c, "id", 1, "", FALSE, "TargetStableError")
          /\ UNCHANGED result
       \/ /\ result' = [result EXCEPT ![c] = adbd_root[device[c]]]
          /\ pc' = [pc EXCEPT ![c] = "probe_store"]
          /\ sent' = Sent(c, "id", 0,
                          IF adbd_root[device[c]] THEN "uid=0(" ELSE "uid=2000(",
                          FALSE, "")
    /\ UNCHANGED <<shared, production, attrs, nr_read, disconnect, toggle>>
    /\ UNCHANGED escalated
    /\ UNCHANGED outside_conn

\* connected_as_root: self._connected_as_root[self.device] = 'uid=0(' in
\* result; then _setup_su returns when root, and tries su otherwise.
ProbeStore(c) ==
    /\ pc[c] = "probe_store"
    /\ _connected_as_root' =
         SetConnectedAsRoot(_connected_as_root, device[c], result[c])
    /\ pc' = [pc EXCEPT ![c] = IF result[c] THEN "open" ELSE "su_try"]
    /\ result' = [result EXCEPT ![c] = FALSE]
    /\ sent' = Nothing
    /\ UNCHANGED <<nr_active, lock, adbd_root, production, attrs, nr_read,
                   disconnect, toggle>>
    /\ UNCHANGED escalated
    /\ UNCHANGED outside_conn

\* connected_as_root: the value the property returns to connection c once
\* the status of its device is cached.
connected_as_root(c) == _connected_as_root[device[c]]

\* execute / background: `if as_root and self.connected_as_root: as_root =
\* False`; the command is wrapped in su_cmd when as_root is still set.
UseSu(as_root, cache, d) == as_root /\ cache[d] # "root"

\* How self.execute('ls', timeout=self.timeout, as_root=True) ends: it
\* returns, or raises one of the errors of execute (a non-zero exit status,
\* a failure of `adb shell`, an exit code that cannot be read, a timeout,
\* or the ValueError of a capture without a line break).
SuProbeOutcomes ==
    {"return", "TargetStableCalledProcessError", "TargetStableError",
     "TargetTransientError", "TimeoutError", "ValueError"}

\* except (TargetStableError, TargetTransientError, TimeoutError):
SuProbeCaught(kind) ==
    kind \in {"TargetStableCalledProcessError", "TargetStableError",
              "TargetTransientCalledProcessError", "TargetTransientError",
              "TimeoutError"}

\* _setup_su: self.execute('ls', as_root=True); a failure the except clause
\* catches selects the legacy form of su for this connection, any other
\* error leaves __init__.  The `out` field of `sent` records how execute
\* ended ("" when it returned).
SuTry(c) ==
    /\ pc[c] = "su_try"
    /\ Cached(_connected_as_root, device[c])
    /\ \E kind \in SuProbeOutcomes :
        LET escapes == kind # "return" /\ ~SuProbeCaught(kind) IN
        /\ su_cmd' = [su_cmd EXCEPT
                         ![c] = IF SuProbeCaught(kind) THEN SuLegacy ELSE @]
        /\ sent' = Sent(c, "ls", IF kind = "return" THEN 0 ELSE 1,
                        IF kind = "return" THEN "" ELSE kind,
                        UseSu(TRUE, _connected_as_root, device[c]),
                        IF escapes THEN kind ELSE "")
        /\ pc' = [pc EXCEPT ![c] = IF escapes THEN "failed" ELSE "open"]
    /\ UNCHANGED <<shared, production, device, adb_as_root,
                   _restore_to_adb_root, nr_read, disconnect, toggle, result>>
    /\ UNCHANGED escalated
    /\ UNCHANGED outside_conn

----------------------------------------------------------------------------
(* Operations of an open connection: execute, background *)

\* execute(command, as_root) and background(command, as_root) on an open
\* connection: the root status is cached by then, so neither probes.  The
\* as_root argument is recorded in the `out` field of `sent`.
Execute(c) ==
    /\ pc[c] = "open"
    /\ \E op \in {"execute", "background"}, as_root \in BOOLEAN :
        /\ as_root => Cached(_connected_as_root, device[c])
        /\ sent' = Sent(c, op, 0, IF as_root THEN "as_root" ELSE "",
                        UseSu(as_root, _connected_as_root, device[c]), "")
    /\ UNCHANGED <<shared, production, pc, attrs, nr_read, disconnect, toggle,
                   result>>
    /\ UNCHANGED escalated
    /\ UNCHANGED outside_conn

----------------------------------------------------------------------------
(* Close: AdbConnection._close and adb_disconnect *)

\* nr_active[self.device] -= 1
Decr(n) == n - 1

ShouldDisconnectFlipped(n) == n >= 0

\* disconnect = nr_active[self.device] <= 0
ShouldDisconnect(n) == n <= 0

\* _close up to the read of `nr_active[self.device] -= 1` under the lock.
CloseEnter(c) ==
    /\ pc[c] = "open"
    /\ LockFree
    /\ lock' = c
    /\ nr_read' = [nr_read EXCEPT ![c] = nr_active[device[c]]]
    /\ pc' = [pc EXCEPT ![c] = "close_decr"]
    /\ sent' = Nothing
    /\ UNCHANGED <<nr_active, _connected_as_root, adbd_root, production, attrs,
                   disconnect, toggle, result>>
    /\ UNCHANGED escalated
    /\ UNCHANGED outside_conn

\* The write of `-= 1`, `disconnect = ... <= 0`, `del nr_active[...]` (a
\* deleted key reads as 0 again) and the end of the `with lock:` block;
\* then the branches on `disconnect` and on self.adb_as_root.
CloseDecr(c) ==
    /\ pc[c] = "close_decr"
    /\ LET n == Decr(nr_read[c])
           dis == ShouldDisconnect(n)
       IN /\ nr_active' = [nr_active EXCEPT ![device[c]] = IF dis THEN 0 ELSE n]
          /\ disconnect' = [disconnect EXCEPT ![c] = dis]
          /\ IF dis /\ adb_as_root[c]
             THEN /\ pc' = [pc EXCEPT ![c] = "root_check"]
                  /\ enable' = [enable EXCEPT ![c] = _restore_to_adb_root[c]]
                  /\ caller' = [caller EXCEPT ![c] = "close"]
             ELSE /\ pc' = [pc EXCEPT ![c] = IF dis THEN "disconnect" ELSE "closed"]
                  /\ UNCHANGED toggle
    /\ nr_read' = [nr_read EXCEPT ![c] = 0]
    /\ lock' = Unlocked
    /\ sent' = Nothing
    /\ UNCHANGED <<_connected_as_root, adbd_root, production, attrs, result>>
    /\ UNCHANGED escalated
    /\ UNCHANGED outside_conn

\* adb_disconnect(self.device, ...), the last statement of _close.
AdbDisconnect(c) ==
    /\ pc[c] = "disconnect"
    /\ pc' = [pc EXCEPT ![c] = "closed"]
    /\ sent' = Sent(c, "disconnect", 0, "", FALSE, "")
    /\ UNCHANGED <<shared, production, attrs, nr_read, disconnect, toggle,
                   result>>
    /\ UNCHANGED escalated
    /\ UNCHANGED outside_conn

----------------------------------------------------------------------------

Next ==
    \E c \in Conns :
        \/ InitEnter(c)
        \/ InitIncr(c)
        \/ AdbRoot(c)
        \/ RootCheck(c)
        \/ RootCmd(c)
        \/ AdbConnect(c)
        \/ SetupLs(c)
        \/ SuCheck(c)
        \/ ProbeRun(c)
        \/ ProbeStore(c)
        \/ SuTry(c)
        \/ Execute(c)
        \/ CloseEnter(c)
        \/ CloseDecr(c)
        \/ AdbDisconnect(c)

Spec == Init /\ [][Next]_vars

----------------------------------------------------------------------------
(* Steps of one thread, for the properties of single operations. *)

RootCheckStep(c) == pc[c] = "root_check" /\ pc'[c] # "root_check"
RootCmdStep(c) == pc[c] = "root_cmd" /\ pc'[c] # "root_cmd"

\* The connections that name device d.
ConnsOf(d) == {c \in Conns : device[c] = d}
OpenOn(d) == {c \in ConnsOf(d) : IsOpen(c)}

\* The last step was `adb root` / `adb unroot`.
SentToggle == sent.cmd \in {"root", "unroot"}

----------------------------------------------------------------------------
(* Claims *)

\* C1: when the constructions of all the connections to a device d have
\* returned successfully (N of them, none closed yet), whatever the
\* interleaving of the constructing threads, nr_active[d] = N.
C1_CountEqualsN ==
    \A d \in Devices :
        (\A c \in ConnsOf(d) : IsOpen(c)) => nr_active[d] = Cardinality(ConnsOf(d))

C1_Witness ==
    \E d \in Devices :
        /\ Cardinality(ConnsOf(d)) >= 2
        /\ \A c \in ConnsOf(d) : IsOpen(c)
        /\ nr_active[d] = Cardinality(ConnsOf(d))

\* C2: among the closes of the open connections to a device, with no
\* construction running, exactly one enters the teardown path: a close sets
\* `disconnect` exactly when it moves the count from 1 to 0, and the close
\* after which no connection to the device is left open or under
\* construction is that close.
C2_OneTeardownPerSet ==
    [][\A c \in Conns :
        (pc[c] = "close_decr" /\ pc'[c] # "close_decr") =>
            LET d == device[c] IN
            /\ disconnect'[c] <=> (nr_active[d] = 1 /\ nr_active'[d] = 0)
            /\ (\A k \in ConnsOf(d) \ {c} : pc[k] \in {"closed", "failed"})
                  => disconnect'[c]]_vars

\* C3: the teardown of a device (root restore, adb_disconnect) is never
\* executed while some connection to that device is open.
C3_NoTeardownWhileOpen ==
    (\/ sent.cmd = "disconnect"
     \/ SentToggle /\ pc[sent.by] \in {"disconnect", "closed"}) =>
        OpenOn(sent.dev) = {}

\* C4: when no operation is in flight, nr_active[d] is the number of open
\* connections to d: a construction that failed has left the count as it
\* found it.
C4_CountIsOpenConnections ==
    (\A c \in Conns : pc[c] \in {"new", "open", "closed", "failed"})
        => \A d \in Devices : nr_active[d] = Cardinality(OpenOn(d))

\* C5: whenever the lock is not held, every stored count is >= 0.
C5_CountNonNegative ==
    lock = Unlocked => \A d \in Devices : nr_active[d] >= 0

C5_Witness ==
    /\ lock = Unlocked
    /\ \E c, k \in Conns :
        /\ c # k /\ device[c] = device[k]
        /\ pc[c] = "closed" /\ pc[k] = "closed"
        /\ disconnect[c] /\ ~disconnect[k]
        /\ nr_active[device[c]] = 0

\* C6: a root toggle that finds more than one active connection to its
\* device raises the busy AdbRootError, sends nothing to the transport, and
\* leaves the cached root status, the count and the device as they were.
C6_BusyToggleNoEffect ==
    [][\A c \in Conns :
        (RootCheckStep(c) /\ nr_active[device[c]] > 1) =>
            /\ sent'.by = c /\ sent'.raised = Busy /\ sent'.cmd = "none"
            /\ pc'[c] # "root_cmd"
            /\ _connected_as_root' = _connected_as_root
            /\ nr_active' = nr_active
            /\ adbd_root' = adbd_root]_vars

C6_Witness ==
    /\ sent.raised = Busy
    /\ nr_active[sent.dev] > 1
    /\ pc[sent.by] = "open"

\* C7 as stated: the toggle is busy exactly when the count is 2 or more, and
\* with a count of 0 or 1 it returns without error.
C7_SucceedsIffAtMostOne ==
    [][\A c \in Conns :
        /\ RootCheckStep(c) =>
              (sent'.raised = Busy <=> nr_active[device[c]] >= 2)
        /\ RootCmdStep(c) => sent'.raised = ""]_vars

\* C7, amended: the toggle raises the busy error exactly when the count is 2
\* or more at its check; with a count of 0 or 1 it sends the toggle command,
\* and then it returns without error unless that command exits non-zero
\* without saying that adbd already runs as root, or reports the refusal of
\* a production build.
C7_BusyIffMoreThanOne ==
    [][\A c \in Conns :
        /\ RootCheckStep(c) =>
              /\ sent'.raised = Busy <=> nr_active[device[c]] >= 2
              /\ nr_active[device[c]] <= 1 => pc'[c] = "root_cmd"
        /\ RootCmdStep(c) =>
              /\ sent'.cmd = (IF enable[c] THEN "root" ELSE "unroot")
              /\ sent'.raised \in {"", Refused}
              /\ sent'.raised = Refused <=>
                    \/ sent'.exit # 0 /\ sent'.out # "already_root"
                    \/ sent'.out = "production"]_vars

C7_Witness ==
    /\ SentToggle /\ sent.raised = ""
    /\ nr_active[sent.dev] <= 1
    /\ pc[sent.by] = "open"

\* C8: when the toggle command fails (non-zero exit, or the refusal of a
\* production build with exit status 0), the toggle returns normally only
\* if the output says the device already is in the state asked for; every
\* other failure raises AdbRootError, and a toggle that raises leaves the
\* cached root status as it was.
AlreadyAsRequested(s) ==
    \/ s.cmd = "root" /\ s.out = "already_root"
    \/ s.cmd = "unroot" /\ s.out = "not_root"

C8_FailureTolerance ==
    [][\A c \in Conns :
        (RootCmdStep(c) /\ (sent'.exit # 0 \/ sent'.out = "production")) =>
            /\ sent'.raised = "" => AlreadyAsRequested(sent')
            /\ ~AlreadyAsRequested(sent') => sent'.raised = Refused
            /\ sent'.raised # "" =>
                  _connected_as_root' = _connected_as_root]_vars

C8_Witness ==
    /\ sent.cmd = "root" /\ sent.exit # 0 /\ sent.out = "already_root"
    /\ sent.raised = ""
    /\ _connected_as_root[sent.dev] = "root"

C10_ProbeOnlyWhenUnknown ==
    sent.cmd = "id" => _connected_as_root[sent.dev] = None

\* C11: constructing a connection with root escalation requested while
\* another connection to the same device is open does not fail because of
\* the escalation: the busy refusal is swallowed, no `adb root` command is
\* sent, the cached root status is unchanged, and construction goes on to
\* adb_connect (and from there to the ls and su probes).
C11_BusyEscalationSwallowed ==
    [][\A c \in Conns :
        (/\ RootCheckStep(c)
         /\ caller[c] = "init"
         /\ OpenOn(device[c]) \ {c} # {}) =>
            /\ sent'.raised = Busy
            /\ sent'.cmd = "none"
            /\ _connected_as_root' = _connected_as_root
            /\ adbd_root' = adbd_root
            /\ pc'[c] = "connect"]_vars

C11_Witness ==
    /\ sent.raised = Busy
    /\ pc[sent.by] = "connect"
    /\ adb_as_root[sent.by]
    /\ OpenOn(sent.dev) \ {sent.by} # {}

\* C12: the escalation of __init__, when it succeeds, records in
\* _restore_to_adb_root the root state the device had just before it; the
\* record is not written again afterwards; and the restore toggle of _close
\* (run by the connection that brought the count to zero), whenever the
\* device answers it, leaves the device in the recorded state: root if it
\* was root before the escalation, non-root otherwise.
C12_CloseRestoresPriorState ==
    [][\A c \in Conns :
        /\ (RootCmdStep(c) /\ caller[c] = "init" /\ sent'.raised = "") =>
              _restore_to_adb_root'[c] = adbd_root[device[c]]
        /\ ~(pc[c] = "new" \/ (pc[c] = "root_cmd" /\ caller[c] = "init")) =>
              _restore_to_adb_root'[c] = _restore_to_adb_root[c]
        /\ (RootCmdStep(c) /\ caller[c] = "close" /\ sent'.out # "error") =>
              adbd_root'[device[c]] = _restore_to_adb_root[c]]_vars

C12_Witness ==
    /\ sent.cmd = "root" /\ sent.raised = ""
    /\ pc[sent.by] = "disconnect"
    /\ _restore_to_adb_root[sent.by]
    /\ adbd_root[sent.dev]


\* C26: _setup_su sends no `ls` when the device is known to be root;
\* otherwise its one `ls` under su ends with the connection open whatever
\* error execute raised, selects the legacy form exactly when it failed,
\* and leaves the su form of every other connection alone.
C26_SuProbeNeverRaises ==
    [][\A c \in Conns :
        /\ (pc[c] = "su_try" /\ pc'[c] # "su_try") =>
            /\ pc'[c] = "open"
            /\ sent'.cmd = "ls" /\ sent'.by = c /\ sent'.raised = ""
            /\ su_cmd'[c] = IF sent'.out = "" THEN su_cmd[c] ELSE SuLegacy
            /\ \A k \in Conns \ {c} : su_cmd'[k] = su_cmd[k]
        /\ (pc[c] \in {"su_check", "probe_store"} /\ pc'[c] = "open") =>
            /\ sent'.cmd # "ls"
            /\ UNCHANGED su_cmd]_vars


\* C27: a close whose decrement brought the count of its device to zero
\* (`disconnect` is true) ends only by running adb_disconnect for the
\* device, also when the root restore before it raised AdbRootError.
C27_TeardownAtZero ==
    [][\A c \in Conns :
        (disconnect[c] /\ pc[c] # "closed" /\ pc'[c] = "closed") =>
            sent'.cmd = "disconnect" /\ sent'.by = c]_vars


\* C28: the close of a connection none of whose own adb_root(True) calls
\* went through (its escalation at construction was blocked as busy, or
\* refused) leaves the root state of every device as it was.
C28_CloseWithoutEscalationKeepsRoot ==
    [][\A c \in Conns :
        (RootCmdStep(c) /\ caller[c] = "close" /\ ~escalated[c]) =>
            adbd_root' = adbd_root]_vars

----------------------------------------------------------------------------
(***************************************************************************)
(* The command channel: execute() and adb_shell().                         *)
(*                                                                         *)
(* A string is a sequence of characters.  The text 'Error: Activity', the  *)
(* fixed prefix of the pattern AM_START_ERROR, stands at one position of   *)
(* such a sequence.                                                        *)
(***************************************************************************)

\* Bounds: the length of the output a wrapped command prints, the length of
\* an arbitrary capture, the largest exit status, and the number of blank
\* lines a transport may add.
MaxOut == 2
MaxLen == 4
MaxCode == 255
MaxBlank == 2

LF == "\n"
CR == "\r"
ActivityError == "Error: Activity"
Alphabet == {"h", " ", "0", "3", LF, CR, ActivityError}
Hello == <<"h", "e", "l", "l", "o">>

Strings(n) == UNION {[1..k -> Alphabet] : k \in 0..n}

DigitChars == <<"0", "1", "2", "3", "4", "5", "6", "7", "8", "9">>
Whitespace == {" ", "\t", LF, CR}

\* str(n) of a natural number, as the shell prints $?.
RECURSIVE Decimal(_)
Decimal(n) ==
    IF n < 10 THEN <<DigitChars[n + 1]>>
    ELSE Append(Decimal(n \div 10), DigitChars[(n % 10) + 1])

\* What the device prints for the command of adb_shell,
\* '({}); echo "\n$?"': the command's own output, a newline, $? and the
\* newline echo ends with.
Wrapped(O, C) == O \o <<LF>> \o Decimal(C) \o <<LF>>

\* str.replace('\r\n', '\n')
RECURSIVE ReplaceCRLF(_)
ReplaceCRLF(s) ==
    IF s = <<>> THEN <<>>
    ELSE IF Len(s) >= 2 /\ s[1] = CR /\ s[2] = LF
         THEN <<LF>> \o ReplaceCRLF(SubSeq(s, 3, Len(s)))
         ELSE <<s[1]>> \o ReplaceCRLF(Tail(s))

\* str.replace('\r', '\n')
ReplaceCR(s) == [i \in 1..Len(s) |-> IF s[i] = CR THEN LF ELSE s[i]]

NormalizeCRLFOnly(s) == ReplaceCRLF(s)

\* raw_output.replace('\r\n', '\n').replace('\r', '\n')
Normalize(s) == ReplaceCR(ReplaceCRLF(s))

\* The position of the last newline of s, 0 when it has none.
LastLF(s) ==
    IF \E i \in 1..Len(s) : s[i] = LF
    THEN CHOOSE i \in 1..Len(s) :
            s[i] = LF /\ \A j \in (i + 1)..Len(s) : s[j] # LF
    ELSE 0

\* str.split('\n', maxsplit): the list of the parts, split from the left.
RECURSIVE split(_, _)
split(s, maxsplit) ==
    LET first == IF \E i \in 1..Len(s) : s[i] = LF
                 THEN CHOOSE i \in 1..Len(s) :
                         s[i] = LF /\ \A j \in 1..(i - 1) : s[j] # LF
                 ELSE 0
    IN IF maxsplit = 0 \/ first = 0 THEN <<s>>
       ELSE <<SubSeq(s, 1, first - 1)>>
               \o split(SubSeq(s, first + 1, Len(s)), maxsplit - 1)

\* str.rsplit('\n', maxsplit): the list of the parts, split from the right.
RECURSIVE rsplit(_, _)
rsplit(s, maxsplit) ==
    IF maxsplit = 0 \/ LastLF(s) = 0 THEN <<s>>
    ELSE Append(rsplit(SubSeq(s, 1, LastLF(s) - 1), maxsplit - 1),
                SubSeq(s, LastLF(s) + 1, Len(s)))

\* str.strip()
RECURSIVE lstrip(_)
lstrip(s) ==
    IF s # <<>> /\ s[1] \in Whitespace THEN lstrip(Tail(s)) ELSE s
RECURSIVE rstrip(_)
rstrip(s) ==
    IF s # <<>> /\ s[Len(s)] \in Whitespace
    THEN rstrip(SubSeq(s, 1, Len(s) - 1)) ELSE s
strip(s) == rstrip(lstrip(s))

\* str.isdigit() and int(str) of a string of decimal digits.
IsDigit(ch) == \E d \in 1..Len(DigitChars) : DigitChars[d] = ch
isdigit(s) == s # <<>> /\ \A i \in 1..Len(s) : IsDigit(s[i])
DigitValue(ch) == (CHOOSE d \in 1..Len(DigitChars) : DigitChars[d] = ch) - 1
RECURSIVE int(_)
int(s) ==
    IF s = <<>> THEN 0
    ELSE 10 * int(SubSeq(s, 1, Len(s) - 1)) + DigitValue(s[Len(s)])

\* AM_START_ERROR.findall(output) is not empty.
re_search(out) == \E i \in 1..Len(out) : out[i] = ActivityError

\* '\n'.join(x for x in (output, error) if x)
Join(out, err) ==
    IF out # <<>> /\ err # <<>> THEN out \o <<LF>> \o err
    ELSE IF out # <<>> THEN out ELSE err

\* exit_code = '969696' of an empty capture.
NoCapture == <<"9", "6", "9", "6", "9", "6">>

\* The if / try / except ValueError / else of adb_shell that splits the
\* capture into output and exit_code; a ValueError raised inside the except
\* clause leaves adb_shell.
SplitCapture(raw) ==
    IF raw = <<>>
    THEN [raised |-> "", output |-> <<>>, exit_code |-> NoCapture]
    ELSE LET three == rsplit(Normalize(raw), 2)
             two == rsplit(Normalize(raw), 1)
         IN IF Len(three) = 3
            THEN [raised |-> "", output |-> three[1], exit_code |-> three[2]]
            ELSE IF Len(two) = 2
                 THEN [raised |-> "", output |-> <<>>, exit_code |-> two[1]]
                 ELSE [raised |-> "ValueError", output |-> <<>>,
                       exit_code |-> <<>>]

CheckExitCodeTransientOnly(check, code, out, err) ==
    IF ~check THEN Outcome("return", 0, Join(out, err), <<>>)
    ELSE IF isdigit(strip(code))
         THEN IF int(strip(code)) # 0
              THEN Outcome("CalledProcessError", int(strip(code)), out, err)
              ELSE IF re_search(out)
                   THEN Outcome("TargetStableError", 0, <<>>, <<>>)
                   ELSE Outcome("return", 0, Join(out, err), <<>>)
         ELSE Outcome("TargetTransientError", 0, <<>>, <<>>)

CheckExitCodeIgnoreCode(check, code, out, err) ==
    IF ~check THEN Outcome("return", 0, Join(out, err), <<>>)
    ELSE IF isdigit(strip(code))
         THEN IF re_search(out)
              THEN Outcome("TargetStableError", 0, <<>>, <<>>)
              ELSE Outcome("return", 0, Join(out, err), <<>>)
         ELSE IF re_search(out)
              THEN Outcome("TargetStableError", 0, <<>>, <<>>)
              ELSE Outcome("TargetTransientError", 0, <<>>, <<>>)

\* The `if check_exit_code:` block of adb_shell and its return statement.
CheckExitCode(check, code, out, err) ==
    IF ~check THEN Outcome("return", 0, Join(out, err), <<>>)
    ELSE IF isdigit(strip(code))
         THEN IF int(strip(code)) # 0
              THEN Outcome("CalledProcessError", int(strip(code)), out, err)
              ELSE IF re_search(out)
                   THEN Outcome("TargetStableError", 0, <<>>, <<>>)
                   ELSE Outcome("return", 0, Join(out, err), <<>>)
         ELSE IF re_search(out)
              THEN Outcome("TargetStableError", 0, <<>>, <<>>)
              ELSE Outcome("TargetTransientError", 0, <<>>, <<>>)

ExecuteHandlersSuppress(res, hint) ==
    CASE res.kind = "CalledProcessError" ->
            Outcome(IF hint THEN "TargetTransientCalledProcessError"
                            ELSE "TargetStableCalledProcessError",
                    res.returncode, res.output, res.stderr)
      [] res.kind = "TargetStableError" ->
            IF hint THEN Outcome("return", 0, <<>>, <<>>) ELSE res
      [] OTHER -> res

\* The except clauses of execute() around adb_shell.
ExecuteHandlers(res, hint) ==
    CASE res.kind = "CalledProcessError" ->
            Outcome(IF hint THEN "TargetTransientCalledProcessError"
                            ELSE "TargetStableCalledProcessError",
                    res.returncode, res.output, res.stderr)
      [] res.kind = "TargetStableError" ->
            IF hint THEN Outcome("TargetTransientError", 0, <<>>, <<>>)
                    ELSE res
      [] OTHER -> res

\* execute(command, check_exit_code=..., will_succeed=...) is called.
ShellInit ==
    /\ NoConnection
    /\ production = [d \in Devices |-> FALSE]
    /\ adbd_root = [d \in Devices |-> FALSE]
    /\ stage = "called"
    /\ check_exit_code \in BOOLEAN
    /\ will_succeed \in BOOLEAN
    /\ capture = "none"
    /\ printed = <<>>
    /\ status = 0
    /\ raw_output = <<>>
    /\ error = <<>>
    /\ output = <<>>
    /\ exit_code = <<>>
    /\ shell_res = NoOutcome
    /\ exec_res = NoOutcome
    /\ NoLaunch
    /\ NoListing
    /\ NoConnect
    /\ NoGetDevice

\* check_output returns what the device printed for the wrapped command.
CaptureWrapped ==
    /\ stage = "called"
    /\ \E O \in Strings(MaxOut), C \in 0..MaxCode :
        /\ printed' = O
        /\ status' = C
        /\ raw_output' = Wrapped(O, C)
    /\ error' = <<>>
    /\ capture' = "wrapped"
    /\ stage' = "captured"
    /\ UNCHANGED <<check_exit_code, will_succeed, output, exit_code,
                   shell_res, exec_res>>
    /\ UNCHANGED outside_shell

\* The line endings a transport may deliver a newline as.
LineEndings == {<<LF>>, <<CR>>, <<CR, LF>>}
RECURSIVE Repeat(_, _)
Repeat(s, n) == IF n = 0 THEN <<>> ELSE s \o Repeat(s, n - 1)

\* check_output returns the capture of `echo hello; exit 0` with each of its
\* two newlines delivered as some line ending, followed by blank lines.
CaptureHello ==
    /\ stage = "called"
    /\ \E e1 \in LineEndings, e2 \in LineEndings, e3 \in LineEndings,
          blank \in 0..MaxBlank :
        raw_output' = Hello \o e1 \o Decimal(0) \o e2 \o Repeat(e3, blank)
    /\ printed' = Hello
    /\ status' = 0
    /\ error' = <<>>
    /\ capture' = "hello"
    /\ stage' = "captured"
    /\ UNCHANGED <<check_exit_code, will_succeed, output, exit_code,
                   shell_res, exec_res>>
    /\ UNCHANGED outside_shell

\* check_output returns some capture and some error stream: the transport
\* was cut short, or printed text of its own.
CaptureAny ==
    /\ stage = "called"
    /\ raw_output' \in Strings(MaxLen)
    /\ error' \in {<<>>, <<"e">>}
    /\ capture' = "any"
    /\ stage' = "captured"
    /\ UNCHANGED <<check_exit_code, will_succeed, printed, status, output,
                   exit_code, shell_res, exec_res>>
    /\ UNCHANGED outside_shell

\* check_output raises subprocess.CalledProcessError: adb_shell raises
\* TargetStableError(str(e)).
CaptureFails ==
    /\ stage = "called"
    /\ capture' = "failed"
    /\ shell_res' = Outcome("TargetStableError", 0, <<>>, <<>>)
    /\ stage' = "shell_done"
    /\ UNCHANGED <<check_exit_code, will_succeed, printed, status,
                   raw_output, error, output, exit_code, exec_res>>
    /\ UNCHANGED outside_shell

\* adb_shell splits the capture.
Split ==
    /\ stage = "captured"
    /\ LET r == SplitCapture(raw_output) IN
        /\ output' = r.output
        /\ exit_code' = r.exit_code
        /\ IF r.raised = ""
           THEN stage' = "split" /\ UNCHANGED shell_res
           ELSE /\ stage' = "shell_done"
                /\ shell_res' = Outcome(r.raised, 0, <<>>, <<>>)
    /\ UNCHANGED <<check_exit_code, will_succeed, capture, printed, status,
                   raw_output, error, exec_res>>
    /\ UNCHANGED outside_shell

\* adb_shell checks the exit code and returns or raises.
Check ==
    /\ stage = "split"
    /\ shell_res' = CheckExitCode(check_exit_code, exit_code, output, error)
    /\ stage' = "shell_done"
    /\ UNCHANGED <<check_exit_code, will_succeed, capture, printed, status,
                   raw_output, error, output, exit_code, exec_res>>
    /\ UNCHANGED outside_shell

\* execute returns adb_shell's value or raises through its except clauses.
Return ==
    /\ stage = "shell_done"
    /\ exec_res' = ExecuteHandlers(shell_res, will_succeed)
    /\ stage' = "done"
    /\ UNCHANGED <<check_exit_code, will_succeed, capture, printed, status,
                   raw_output, error, output, exit_code, shell_res>>
    /\ UNCHANGED outside_shell

ShellNext ==
    \/ CaptureWrapped
    \/ CaptureHello
    \/ CaptureAny
    \/ CaptureFails
    \/ Split
    \/ Check
    \/ Return

ShellSpec == ShellInit /\ [][ShellNext]_vars

----------------------------------------------------------------------------
(* Properties of the command channel. *)

\* adb_shell has split the capture of a wrapped command.
SplitWrapped == capture = "wrapped" /\ stage \in {"split", "shell_done", "done"}

\* C13 as stated: for every output O over the alphabet and every exit
\* status C in 0..255, splitting the capture (O, newline, decimal C,
\* newline) gives back exactly O as output and C as exit code.
C13_RoundTrip ==
    SplitWrapped =>
        /\ output = printed
        /\ isdigit(strip(exit_code))
        /\ int(strip(exit_code)) = status

\* C13, amended: the exit status always comes back as C; the output comes
\* back as exactly O when O holds no carriage return, and otherwise as O
\* with every CRLF and every CR turned into a newline (a CR that ends O
\* joins the newline of the wrapper and is lost).
C13_RoundTripUpToCR ==
    SplitWrapped =>
        /\ output \o <<LF>> = Normalize(printed \o <<LF>>)
        /\ (\A i \in 1..Len(printed) : printed[i] # CR) => output = printed
        /\ isdigit(strip(exit_code))
        /\ int(strip(exit_code)) = status

C13_Witness ==
    /\ SplitWrapped
    /\ \E i \in 1..Len(printed) : printed[i] = LF
    /\ status = MaxCode
    /\ output = printed
    /\ int(strip(exit_code)) = MaxCode

\* execute has ended for the capture of `echo hello; exit 0`.
HelloDone == capture = "hello" /\ stage = "done"
\* The captures of `echo hello; exit 0` that end with the line of the exit
\* status: each newline is one line ending and no blank line follows.
HelloNoBlank ==
    {Hello \o e1 \o Decimal(0) \o e2 : e1 \in LineEndings, e2 \in LineEndings}

\* C14 as stated: for the command that prints hello and exits 0, execute
\* returns the output hello and the exit code 0 for every capture that
\* differs from the canonical one by trailing blank lines or by a mixture
\* of CRLF, CR and LF line endings.
C14_HelloAnyCapture ==
    HelloDone =>
        /\ exec_res = Outcome("return", 0, Hello, <<>>)
        /\ output = Hello
        /\ int(strip(exit_code)) = 0

\* C14, amended: the result is hello and 0 for every mixture of CRLF, CR
\* and LF line endings when no blank line follows the exit status; a
\* capture with trailing blank lines yields an empty exit code, so that
\* execute with exit-code checking raises a transient error and execute
\* without it returns the text up to the second-last newline.
C14_HelloLineEndings ==
    HelloDone =>
        /\ raw_output \in HelloNoBlank =>
              /\ exec_res = Outcome("return", 0, Hello, <<>>)
              /\ output = Hello
              /\ isdigit(strip(exit_code)) /\ int(strip(exit_code)) = 0
        /\ raw_output \notin HelloNoBlank =>
              /\ exit_code = <<>>
              /\ output # Hello
              /\ check_exit_code => exec_res.kind = "TargetTransientError"
              /\ ~check_exit_code => exec_res = Outcome("return", 0, output, <<>>)

C14_Witness ==
    /\ HelloDone
    /\ check_exit_code
    /\ raw_output = Hello \o <<CR, LF>> \o Decimal(0) \o <<CR>>
    /\ exec_res = Outcome("return", 0, Hello, <<>>)

\* execute with exit-code checking has ended after adb_shell split a
\* capture into output and exit_code.
CheckedDone ==
    /\ stage = "done"
    /\ check_exit_code
    /\ capture \in {"wrapped", "hello", "any"}
    /\ shell_res.kind # "ValueError"
\* The class execute gives a process-exit error.
ProcessExit == IF will_succeed THEN "TargetTransientCalledProcessError"
                               ELSE "TargetStableCalledProcessError"

\* C15: with exit-code checking, every numeric non-zero exit code C makes
\* execute raise a process-exit error that carries C, the output and the
\* error stream (the stable one unless will_succeed is set); for a wrapped
\* command C is the exit status of the command on the device.  A numeric
\* zero code with output that does not match AM_START_ERROR raises nothing:
\* execute returns the output joined with the error stream.
C15_NonZeroRaisesProcessExit ==
    (CheckedDone /\ isdigit(strip(exit_code))) =>
        /\ int(strip(exit_code)) # 0 =>
              exec_res = Outcome(ProcessExit, int(strip(exit_code)),
                                 output, error)
        /\ (capture = "wrapped" /\ status # 0) =>
              exec_res.kind = ProcessExit /\ exec_res.returncode = status
        /\ (int(strip(exit_code)) = 0 /\ ~re_search(output)) =>
              exec_res = Outcome("return", 0, Join(output, error), <<>>)

C15_Witness ==
    /\ CheckedDone
    /\ capture = "wrapped" /\ status = 3 /\ printed # <<>>
    /\ ~will_succeed
    /\ exec_res = Outcome("TargetStableCalledProcessError", 3, printed, <<>>)

\* The classes of the failures of execute.
Transient == {"TargetTransientError", "TargetTransientCalledProcessError"}
Stable == {"TargetStableError", "TargetStableCalledProcessError"}

\* C16: an empty capture leaves the exit code undetermined, so execute with
\* exit-code checking raises a transient error, never a stable or a
\* process-exit error.
C16_EmptyCaptureTransient ==
    (stage = "done" /\ capture = "any" /\ raw_output = <<>>
        /\ check_exit_code) =>
            exec_res.kind = "TargetTransientError"

C18_EveryFailureClassified ==
    stage = "done" =>
        /\ exec_res.kind \in {"return"} \cup Transient \cup Stable
        /\ (capture = "any" /\ raw_output # <<>> /\ check_exit_code
                /\ \A i \in 1..Len(raw_output) : raw_output[i] \notin {LF, CR})
              => exec_res.kind \in Transient

\* C19: will_succeed only moves failures from stable to transient.  With it
\* set, a stable error of adb_shell leaves execute as a transient error and
\* a process-exit error as the transient process-exit error with the same
\* code and streams; with it unset they leave as the stable ones; a
\* transient error stays transient; execute returns exactly when adb_shell
\* returned, with the same value.
C19_HintOnlyMovesStableToTransient ==
    stage = "done" =>
        /\ shell_res.kind = "CalledProcessError" =>
              exec_res = Outcome(IF will_succeed
                                 THEN "TargetTransientCalledProcessError"
                                 ELSE "TargetStableCalledProcessError",
                                 shell_res.returncode, shell_res.output,
                                 shell_res.stderr)
        /\ shell_res.kind = "TargetStableError" =>
              exec_res.kind = IF will_succeed THEN "TargetTransientError"
                                              ELSE "TargetStableError"
        /\ shell_res.kind = "TargetTransientError" =>
              exec_res.kind = "TargetTransientError"
        /\ will_succeed => exec_res.kind \notin Stable
        /\ exec_res.kind = "return" <=> shell_res.kind = "return"
        /\ shell_res.kind = "return" => exec_res = shell_res

C19_Witness ==
    /\ stage = "done" /\ will_succeed
    /\ shell_res = Outcome("CalledProcessError", 3, <<"h">>, <<"e">>)
    /\ exec_res = Outcome("TargetTransientCalledProcessError", 3, <<"h">>,
                          <<"e">>)

----------------------------------------------------------------------------
(***************************************************************************)
(* The background launch: adb_background_shell().                          *)
(*                                                                         *)
(* Popen starts `adb shell` with the command frozen behind its uuid; the   *)
(* sh -c layers carrying the uuid appear in the device's process table at  *)
(* some later moment.  Every iteration of the discovery loop runs find_pid *)
(* through conn.execute and is one step.                                   *)
(***************************************************************************)

\* for _ in range(5)
Attempts == 5

\* The pids the device may give the sh -c layers.
PidPool == {9, 10}

\* What find_pid prints: the pid column of the matching lines, one pid per
\* line, without the newline that $(...) strips.
RECURSIVE PidsText(_)
PidsText(S) ==
    IF S = {} THEN <<>>
    ELSE LET p == CHOOSE x \in S : \A y \in S : x <= y
         IN IF S = {p} THEN Decimal(p)
            ELSE Decimal(p) \o <<LF>> \o PidsText(S \ {p})

\* The exit statuses `kill -CONT $pids` may end with: it signals the
\* listed layers, or it is run without any pid and, depending on the
\* shell's kill, fails with a usage error.
KillStatus(S) == IF S = {} THEN {0, 1} ELSE {0}

\* What check_output captures of one run of find_pid: the wrapped output
\* in full; the same with a line of other text (a warning of the shell)
\* before the pids; the output cut after the pids, before the exit status;
\* nothing at all.
FindPidCapture(shape, S, kill) ==
    CASE shape = "full" -> Wrapped(PidsText(S), kill)
      [] shape = "noise" -> Wrapped(<<"h", LF>> \o PidsText(S), kill)
      [] shape = "cut" -> PidsText(S) \o <<LF>>
      [] OTHER -> <<>>

\* conn.execute(find_pid, as_root=as_root) for the capture `raw`: adb_shell
\* and the except clauses of execute, with the defaults
\* check_exit_code=True and will_succeed=False.
FindPid(raw) ==
    LET r == SplitCapture(raw)
    IN IF r.raised # ""
       THEN Outcome(r.raised, 0, <<>>, <<>>)
       ELSE ExecuteHandlers(
                CheckExitCode(TRUE, r.exit_code, r.output, <<>>), FALSE)

\* str.split(): the words of s between runs of whitespace.
WordEnd(s) ==
    IF \E i \in 1..Len(s) : s[i] \in Whitespace
    THEN (CHOOSE i \in 1..Len(s) :
            s[i] \in Whitespace /\ \A j \in 1..(i - 1) : s[j] \notin Whitespace)
         - 1
    ELSE Len(s)
RECURSIVE words(_)
words(s) ==
    IF lstrip(s) = <<>> THEN <<>>
    ELSE LET t == lstrip(s)
         IN <<SubSeq(t, 1, WordEnd(t))>>
               \o words(SubSeq(t, WordEnd(t) + 1, Len(t)))

\* max() of strings compares them character by character.
RECURSIVE StrLess(_, _)
StrLess(a, b) ==
    IF a = <<>> THEN b # <<>>
    ELSE IF b = <<>> THEN FALSE
         ELSE IF a[1] = b[1] THEN StrLess(Tail(a), Tail(b))
              ELSE DigitValue(a[1]) < DigitValue(b[1])

MaxPidAsStrings(pids) ==
    LET w == words(pids)
    IN IF w = <<>> \/ \E i \in 1..Len(w) : ~isdigit(w[i])
       THEN [raised |-> "ValueError", pid |-> 0]
       ELSE [raised |-> "",
             pid |-> int(CHOOSE x \in {w[i] : i \in 1..Len(w)} :
                           \A i \in 1..Len(w) : ~StrLess(x, w[i]))]

\* max(map(int, pids.split())): ValueError for no word or a word that is
\* not a number.
Largest(S) == CHOOSE x \in S : \A y \in S : y <= x
MaxPid(pids) ==
    LET w == words(pids)
    IN IF w = <<>> \/ \E i \in 1..Len(w) : ~isdigit(w[i])
       THEN [raised |-> "ValueError", pid |-> 0]
       ELSE [raised |-> "", pid |-> Largest({int(w[i]) : i \in 1..Len(w)})]

\* The body of the try of one iteration: the exception it raises ("" for
\* none) and the pid it found.
TryFindPid(raw) ==
    LET r == FindPid(raw)
    IN IF r.kind = "return" THEN MaxPid(r.output)
       ELSE [raised |-> r.kind, pid |-> 0]

\* `except TargetStableError:` catches TargetStableError and its subclass
\* TargetStableCalledProcessError (devlib.exception).
IsTargetStableError(kind) ==
    kind \in {"TargetStableError", "TargetStableCalledProcessError"}

\* adb_background_shell is called.
BgInit ==
    /\ NoConnection
    /\ production = [d \in Devices |-> FALSE]
    /\ adbd_root = [d \in Devices |-> FALSE]
    /\ NoCall
    /\ orig_command \in {"sleep 2", "logcat"}
    /\ bg_pc = "popen"
    /\ tries = 0
    /\ remote = {}
    /\ seen = <<>>
    /\ excep = "None"
    /\ bg_res = NotEnded
    /\ popens = 0
    /\ proc = "none"
    /\ continued = FALSE
    /\ NoListing
    /\ NoConnect
    /\ NoGetDevice

\* p = subprocess.Popen(full_command, ...): `adb shell` is started with the
\* command behind `kill -STOP $$` and the uuid.
Popen ==
    /\ bg_pc = "popen"
    /\ popens' = popens + 1
    /\ bg_pc' = "discover"
    /\ UNCHANGED <<orig_command, tries, remote, seen, excep, bg_res, proc,
                   continued>>
    /\ UNCHANGED outside_bg

\* The device starts the command: its sh -c layers, with the uuid on their
\* command lines, are in the process table from now on.
RemoteStart ==
    /\ popens > 0
    /\ proc = "none"
    /\ remote' \in (SUBSET PidPool) \ {{}}
    /\ proc' = "visible"
    /\ UNCHANGED <<orig_command, bg_pc, tries, seen, excep, bg_res, popens,
                   continued>>
    /\ UNCHANGED outside_bg

SelfStopSkipped == "resumed"

\* `kill -STOP $$`: the process stops itself.
SelfStop == "stopped"

\* The steps the launched process takes on its own: it stops itself; once
\* resumed it execs the target command, whose command line does not hold
\* the uuid any more; the target exits.
RemoteStep ==
    /\ \/ proc = "visible" /\ proc' = SelfStop
       \/ proc = "resumed" /\ proc' = "running"
       \/ proc = "running" /\ proc' = "exited"
    /\ UNCHANGED <<orig_command, bg_pc, tries, remote, seen, excep, bg_res,
                   popens, continued>>
    /\ UNCHANGED outside_bg

\* The pids find_pid lists: those of the layers that still have the uuid
\* on their command line.
Listed == IF proc \in {"visible", "stopped", "resumed"} THEN remote ELSE {}

\* What one attempt met: the pids find_pid listed, the shape of its capture
\* ("failed" when `adb shell` itself failed) and the exit status of kill.
Attempt(pids, shape, kill) == [pids |-> pids, shape |-> shape, kill |-> kill]

AfterMissRelaunch == "popen"

\* `continue` in the except clause: the next iteration runs find_pid again;
\* the Popen above the loop is not run again.
AfterMiss == "discover"

\* One iteration of the discovery loop: find_pid runs on the device (it
\* lists the pids and sends them SIGCONT, which resumes a stopped process
\* and does nothing to one that runs), and the try, its except clauses and
\* its else handle the capture.
Discover ==
    /\ bg_pc = "discover"
    /\ tries < Attempts
    /\ tries' = tries + 1
    /\ \E shape \in {"full", "noise", "cut", "empty"},
          kill \in KillStatus(Listed) :
        /\ seen' = Append(seen, Attempt(Listed, shape, kill))
        /\ IF shape # "empty" /\ Listed # {}
           THEN /\ continued' = TRUE
                /\ proc' = IF proc = "stopped" THEN "resumed" ELSE proc
           ELSE UNCHANGED <<continued, proc>>
        /\ LET t == TryFindPid(FindPidCapture(shape, Listed, kill)) IN
           IF t.raised = ""
           THEN /\ bg_pc' = "returned"
                /\ bg_res' = Ended("return", t.pid, orig_command)
                /\ UNCHANGED excep
           ELSE IF IsTargetStableError(t.raised)
                THEN /\ bg_pc' = "raised"
                     /\ bg_res' = Ended(t.raised, 0, "")
                     /\ UNCHANGED excep
                ELSE /\ excep' = t.raised
                     /\ bg_pc' = AfterMiss
                     /\ UNCHANGED bg_res
    /\ UNCHANGED <<orig_command, remote, popens>>
    /\ UNCHANGED outside_bg

\* conn.execute raises TargetStableError because `adb shell` itself failed
\* (check_output raised CalledProcessError in adb_shell).
DiscoverFails ==
    /\ bg_pc = "discover"
    /\ tries < Attempts
    /\ tries' = tries + 1
    /\ seen' = Append(seen, Attempt({}, "failed", 0))
    /\ bg_pc' = "raised"
    /\ bg_res' = Ended("TargetStableError", 0, "")
    /\ UNCHANGED <<orig_command, remote, excep, popens, proc, continued>>
    /\ UNCHANGED outside_bg

\* The else of the for loop: every iteration ended in `continue`.
Exhausted ==
    /\ bg_pc = "discover"
    /\ tries = Attempts
    /\ bg_pc' = "raised"
    /\ bg_res' = Ended("TargetTransientError", 0, orig_command)
    /\ UNCHANGED <<orig_command, tries, remote, seen, excep, popens, proc,
                   continued>>
    /\ UNCHANGED outside_bg

BgNext ==
    \/ Popen
    \/ RemoteStart
    \/ RemoteStep
    \/ Discover
    \/ DiscoverFails
    \/ Exhausted

BgSpec == BgInit /\ [][BgNext]_vars

\* The caller's thread keeps running (a pending Popen, loop iteration or
\* loop exit is eventually taken: conn.execute returns or raises) and the
\* device keeps scheduling the launched process.
BgLive ==
    /\ BgInit
    /\ [][BgNext]_vars
    /\ WF_vars(Popen)
    /\ WF_vars(DiscoverFails \/ Discover)
    /\ WF_vars(Exhausted)
    /\ WF_vars(RemoteStart)
    /\ WF_vars(RemoteStep)

----------------------------------------------------------------------------
(* Properties of the background launch. *)

\* Every attempt so far came back in full and listed no process.
NoMatchSoFar ==
    \A i \in 1..Len(seen) : seen[i].shape = "full" /\ seen[i].pids = {}
\* C20: while the discovery listing has matched no process and fewer than
\* 5 attempts were made, the launch goes on to another attempt; when the
\* listing matches on attempt K+1 after K attempts without a match
\* (0 <= K < 5), the launch returns the largest pid matched on that
\* attempt; when all 5 attempts matched nothing the launch raises a
\* transient error naming the original command.
C20_RetryUntilMatch ==
    /\ (NoMatchSoFar /\ Len(seen) < Attempts) => bg_pc \in {"popen", "discover"}
    /\ (/\ seen # <<>>
        /\ seen[Len(seen)].shape = "full" /\ seen[Len(seen)].pids # {}
        /\ \A i \in 1..(Len(seen) - 1) :
              seen[i].shape = "full" /\ seen[i].pids = {}) =>
          /\ bg_pc = "returned"
          /\ bg_res = Ended("return", Largest(seen[Len(seen)].pids),
                            orig_command)
    /\ (NoMatchSoFar /\ Len(seen) = Attempts /\ bg_pc # "discover") =>
          bg_res = Ended("TargetTransientError", 0, orig_command)

\* C21: whatever a discovery attempt comes back with (no match, a non-zero
\* exit status of the discovery command, no exit status, output that is
\* not a list of pids), a launch that raises after an attempt whose capture
\* came back (in full, with other text, or cut before the exit status)
\* raises a transient error.
C21_DiscoveryFailuresTransient ==
    (/\ bg_pc = "raised"
     /\ seen # <<>>
     /\ seen[Len(seen)].shape \in {"full", "noise", "cut"}) =>
        bg_res.kind = "TargetTransientError"

\* C22: in every interleaving of the launched process's steps with the
\* discovery attempts, the target command executes only after a discovery
\* attempt listed the process and sent it the continue signal; a returned
\* pid is the pid of a process that discovery listed before it ran.
C22_TargetRunsAfterContinue ==
    /\ proc \in {"running", "exited"} => continued
    /\ bg_pc = "returned" => continued /\ bg_res.pid \in remote

C22_Witness ==
    bg_pc = "returned" /\ proc = "running" /\ Len(seen) > 1

\* C24: when the launch returns, the pid of the handle is one of the pids
\* the last discovery attempt matched and no matched pid is numerically
\* greater.
C24_GreatestMatchedPid ==
    bg_pc = "returned" =>
        /\ bg_res.pid \in seen[Len(seen)].pids
        /\ \A p \in seen[Len(seen)].pids : p <= bg_res.pid

C24_Witness ==
    /\ bg_pc = "returned"
    /\ seen[Len(seen)].pids = {9, 10}
    /\ bg_res.pid = 10

\* C25: a launch whose discovery commands all return starts the remote
\* command once, never again on a retry, runs find_pid at most 5 times and
\* ends by returning a handle or raising.
C25_LaunchTerminates ==
    /\ [](popens <= 1 /\ Len(seen) <= Attempts /\ tries = Len(seen))
    /\ [](bg_pc \in {"discover", "returned", "raised"} => popens = 1)
    /\ <>(bg_pc \in {"returned", "raised"})

C25_Witness ==
    /\ bg_pc = "raised"
    /\ Len(seen) = Attempts
    /\ popens = 1
    /\ bg_res.kind = "TargetTransientError"

\* C29: once the launch returned a handle, the launched process, fairly
\* scheduled, gets to execute the target command, whichever way its
\* self-stop interleaved with the listing and the continue signal.
C29_ReturnedProcessRuns ==
    (bg_pc = "returned") ~> (proc \in {"running", "exited"})

----------------------------------------------------------------------------
(* Two background launches on one device: what find_pid matches. *)

\* Command lines are sequences of words; a uuid is a word of its own, so
\* that grep's substring match is a match of consecutive words.
Contains(line, pat) ==
    \E i \in 1..(Len(line) - Len(pat) + 1) :
        SubSeq(line, i, i + Len(pat) - 1) = pat

\* grep_cmd = f'{busybox} grep {quote(command_uuid)}'
grep_cmd(u) == <<"busybox", "grep", u>>

\* The words of find_pid.
find_pid(u) ==
    <<"pids=$(", "busybox", "ps", "-A", "-o", "pid,args", "|">>
        \o grep_cmd(u) \o <<"|", "busybox", "grep", "-v">> \o grep_cmd(u)
        \o <<"|", "busybox", "awk", "{print $1}", ")", "&&", "busybox",
             "printf", "$pids", "&&", "busybox", "kill", "-CONT", "$pids">>

\* The command line of the launched shell: with_uuid's sh -c layer around
\* the SIGSTOP prefix.
with_uuid(u) ==
    <<"busybox", "sh", "-c", "DEVLIB_CMD_UUID=", u, ";", "unset",
      "DEVLIB_CMD_UUID", ";", "busybox", "kill", "-STOP", "$$", "&&", "exec",
      "busybox", "sh", "-c">>

\* The processes one run of find_pid puts in the process table: the shell
\* that runs it and the two greps of its pipeline.
Roles == {"sh", "grep", "grepv"}
HelperArgs(u, role) ==
    CASE role = "sh" -> <<"sh", "-c">> \o find_pid(u)
      [] role = "grep" -> grep_cmd(u)
      [] OTHER -> <<"busybox", "grep", "-v">> \o grep_cmd(u)

Process(pid, args) == [pid |-> pid, args |-> args]

\* The pids the device gives out: the launched shells come first, the
\* processes of each find_pid later.
ShellPid(u) == IF u = "a1" THEN 1 ELSE 2
HelperPid(u, role) ==
    (IF u = "a1" THEN 3 ELSE 6)
        + (CASE role = "sh" -> 0 [] role = "grep" -> 1 [] OTHER -> 2)

\* `grep pat` and `grep -v pat` over the lines of ps.
grep(lines, pat) == {l \in lines : Contains(l.args, pat)}
grep_v_nothing(lines, pat) == lines
grep_v(lines, pat) == {l \in lines : ~Contains(l.args, pat)}

\* ps -A -o pid,args | grep uuid | grep -v 'busybox grep uuid'
PsListing(u) == grep_v(grep(table, <<u>>), grep_cmd(u))

PsInit ==
    /\ NoConnection
    /\ production = [d \in Devices |-> FALSE]
    /\ adbd_root = [d \in Devices |-> FALSE]
    /\ NoCall
    /\ NoLaunch
    /\ table = {}
    /\ ps_pc = [u \in Uuids |-> "popen"]
    /\ helpers = [u \in Uuids |-> {}]
    /\ listing = [u \in Uuids |-> {}]
    /\ signalled = [u \in Uuids |-> {}]
    /\ found = [u \in Uuids |-> 0]
    /\ rounds = [u \in Uuids |-> 0]
    /\ snapshot = [u \in Uuids |-> {}]
    /\ NoConnect
    /\ NoGetDevice

\* subprocess.Popen(full_command): the shell with the uuid on its command
\* line is in the device's process table.
Launch(u) ==
    /\ ps_pc[u] = "popen"
    /\ table' = table \cup {Process(ShellPid(u), with_uuid(u))}
    /\ ps_pc' = [ps_pc EXCEPT ![u] = "find"]
    /\ UNCHANGED <<helpers, listing, signalled, found, rounds, snapshot>>
    /\ UNCHANGED outside_ps

\* conn.execute(find_pid) is under way: the shell running find_pid, then
\* the greps of its pipeline, appear in the process table.
Spawn(u, role) ==
    /\ ps_pc[u] = "find"
    /\ rounds[u] < Attempts
    /\ role \notin {h.role : h \in helpers[u]}
    /\ role # "sh" => "sh" \in {h.role : h \in helpers[u]}
    /\ table' = table \cup
                    {Process(HelperPid(u, role), HelperArgs(u, role))}
    /\ helpers' = [helpers EXCEPT
                      ![u] = @ \cup {[role |-> role,
                                      pid |-> HelperPid(u, role)]}]
    /\ UNCHANGED <<ps_pc, listing, signalled, found, rounds, snapshot>>
    /\ UNCHANGED outside_ps

\* ps takes its snapshot, the greps filter it, kill -CONT signals the pids
\* left and pid = max(map(int, pids.split())).
List(u) ==
    /\ ps_pc[u] = "find"
    /\ "sh" \in {h.role : h \in helpers[u]}
    /\ rounds' = [rounds EXCEPT ![u] = @ + 1]
    /\ listing' = [listing EXCEPT ![u] = PsListing(u)]
    /\ signalled' = [signalled EXCEPT ![u] = @ \cup PsListing(u)]
    /\ found' = [found EXCEPT
                    ![u] = IF PsListing(u) = {}
                           THEN 0
                           ELSE Largest({l.pid : l \in PsListing(u)})]
    /\ snapshot' = [snapshot EXCEPT ![u] = table]
    /\ ps_pc' = [ps_pc EXCEPT ![u] = "reap"]
    /\ UNCHANGED <<table, helpers>>
    /\ UNCHANGED outside_ps

\* conn.execute returns: the processes of find_pid are gone; the loop ends
\* when a pid was found or its iterations are used up.
Reap(u) ==
    /\ ps_pc[u] = "reap"
    /\ table' = {l \in table : l.pid \notin {h.pid : h \in helpers[u]}}
    /\ helpers' = [helpers EXCEPT ![u] = {}]
    /\ ps_pc' = [ps_pc EXCEPT
                    ![u] = IF found[u] # 0 \/ rounds[u] = Attempts
                           THEN "done"
                           ELSE "find"]
    /\ UNCHANGED <<listing, signalled, found, rounds, snapshot>>
    /\ UNCHANGED outside_ps

\* The launched shell goes away (the adb transport of its launch drops).
Gone(u) ==
    /\ ps_pc[u] = "find"
    /\ helpers[u] = {}
    /\ table' = {l \in table : l.args # with_uuid(u)}
    /\ table' # table
    /\ UNCHANGED <<ps_pc, helpers, listing, signalled, found, rounds,
                   snapshot>>
    /\ UNCHANGED outside_ps

PsNext ==
    \E u \in Uuids :
        \/ Launch(u)
        \/ \E role \in Roles : Spawn(u, role)
        \/ List(u)
        \/ Reap(u)
        \/ Gone(u)

PsSpec == PsInit /\ [][PsNext]_vars

\* C23: with two launches under way, find_pid of one launch matches, and
\* so signals and returns, no process whose command line holds the other
\* launch's uuid but not its own, and the pid it returns is not the pid of
\* a process of its own filtering pipeline.
C23_OnlyOwnUuidMatched ==
    \A u \in Uuids :
        /\ \A v \in Uuids \ {u} : \A l \in signalled[u] :
               Contains(l.args, <<v>>) => Contains(l.args, <<u>>)
        /\ found[u] # 0 =>
               \E l \in listing[u] :
                   /\ l.pid = found[u]
                   /\ Contains(l.args, <<u>>)
                   /\ ~Contains(l.args, grep_cmd(u))
                   /\ l.pid \notin {h.pid : h \in helpers[u]}

\* Launch a1 found its pid while its own pipeline and the whole pipeline
\* of launch b2 were in the process table.
C23_Witness ==
    /\ ps_pc["a1"] = "reap"
    /\ found["a1"] # 0
    /\ \A u \in Uuids, role \in Roles :
           Process(HelperPid(u, role), HelperArgs(u, role)) \in snapshot["a1"]
    /\ Process(ShellPid("b2"), with_uuid("b2")) \in snapshot["a1"]

----------------------------------------------------------------------------
(* adb_connect: the retry loop around the liveness probe. *)

\* MAX_ATTEMPTS = 5, the default of adb_connect's `attempts`.
MAX_ATTEMPTS == 5

\* adb_connect(device, attempts=A) is called.
ConnectInit ==
    /\ NoConnection
    /\ production = [d \in Devices |-> FALSE]
    /\ adbd_root = [d \in Devices |-> FALSE]
    /\ NoCall
    /\ NoLaunch
    /\ NoListing
    /\ NoGetDevice
    /\ attempts \in 1..MAX_ATTEMPTS
    /\ over_ip \in BOOLEAN
    /\ co_pc = "while"
    /\ co_tries = 0
    /\ co_output = "None"
    /\ cycles = 0
    /\ pings = 0
    /\ co_res = "none"

\* `while tries <= attempts:` and `tries += 1`; the else of the loop raises
\* HostError('Could not connect to ...').
While ==
    /\ co_pc = "while"
    /\ IF co_tries <= attempts
       THEN /\ co_tries' = co_tries + 1
            /\ co_pc' = IF over_ip THEN "cycle" ELSE "ping"
            /\ UNCHANGED co_res
       ELSE /\ co_pc' = "raised"
            /\ co_res' = "HostError"
            /\ UNCHANGED co_tries
    /\ UNCHANGED <<attempts, over_ip, co_output, cycles, pings>>
    /\ UNCHANGED outside_co

\* ADB over IP: adb_disconnect(device), which raises TargetTransientError
\* when `adb disconnect` fails, then `adb connect`, whose output is kept.
Cycle ==
    /\ co_pc = "cycle"
    /\ \/ /\ co_pc' = "raised"
          /\ co_res' = "TargetTransientError"
          /\ UNCHANGED <<co_output, cycles>>
       \/ /\ co_output' \in {"connected", "failed to connect"}
          /\ cycles' = cycles + 1
          /\ co_pc' = "ping"
          /\ UNCHANGED co_res
    /\ UNCHANGED <<attempts, over_ip, co_tries, pings>>
    /\ UNCHANGED outside_co

\* `if _ping(device, ...): break`; adb_connect returns after the break.
Ping ==
    /\ co_pc = "ping"
    /\ pings' = pings + 1
    /\ \E alive \in BOOLEAN :
        IF alive
        THEN co_pc' = "returned" /\ co_res' = "return"
        ELSE co_pc' = "sleep" /\ UNCHANGED co_res
    /\ UNCHANGED <<attempts, over_ip, co_tries, co_output, cycles>>
    /\ UNCHANGED outside_co

\* time.sleep(10) and back to the loop's test.
Sleep ==
    /\ co_pc = "sleep"
    /\ co_pc' = "while"
    /\ UNCHANGED <<attempts, over_ip, co_tries, co_output, cycles, pings,
                   co_res>>
    /\ UNCHANGED outside_co

ConnectNext == While \/ Cycle \/ Ping \/ Sleep

ConnectSpec == ConnectInit /\ [][ConnectNext]_vars

\* C30: adb_connect with attempt bound A calls _ping at most A times: it
\* returns at the first successful probe and raises HostError once A probes
\* in a row have failed, without another probe.
C30_AtMostAttemptsProbes ==
    /\ pings <= attempts
    /\ co_res = "return" => co_pc = "returned" /\ pings = co_tries
    /\ co_res = "HostError" => pings = attempts

----------------------------------------------------------------------------
(* adb_get_device: the device of a connection constructed without one. *)

\* The largest timeout a caller passes.
MaxTimeout == 3

\* default_timeout = 10 (class attribute of AdbConnection).
default_timeout == 10

\* timeout=None, the default of __init__ and of adb_get_device.
NoTimeout == -1

\* The serials of the devices that can be attached to the host.
Serials == {"emu1", "emu2", "emu3"}

\* The lines `adb devices` prints for the devices in S, one after the other.
RECURSIVE DeviceLines(_)
DeviceLines(S) ==
    IF S = {} THEN <<>>
    ELSE LET s == CHOOSE x \in S : TRUE
         IN <<s, "\t", "device", LF>> \o DeviceLines(S \ {s})

\* The output of `adb devices`: the heading, a line per device and a blank
\* line.
DevicesOutput(S) ==
    <<"List of devices attached", LF>> \o DeviceLines(S) \o <<LF>>

\* The position of the first `sep` in text at or after i, 0 when none.
RECURSIVE Find(_, _, _)
Find(text, sep, i) ==
    IF i > Len(text) THEN 0
    ELSE IF text[i] = sep THEN i
    ELSE Find(text, sep, i + 1)

\* str.splitlines(): the lines of text; a line break at the very end opens
\* no further line.
RECURSIVE splitlines(_)
splitlines(text) ==
    IF text = <<>> THEN <<>>
    ELSE LET i == Find(text, LF, 1)
         IN IF i = 0 THEN <<text>>
            ELSE <<SubSeq(text, 1, i - 1)>>
                     \o splitlines(SubSeq(text, i + 1, Len(text)))

\* line.split('\t')[0]: what stands before the first tab.
FirstField(line) ==
    LET i == Find(line, "\t", 1)
    IN IF i = 0 THEN line ELSE SubSeq(line, 1, i - 1)

\* `timeout < time.time() - start`: None cannot be compared with a float.
TimedOut(t, e) ==
    IF t = NoTimeout THEN [raised |-> "TypeError", value |-> FALSE]
    ELSE [raised |-> "", value |-> t < e]

\* AdbConnection(device=None, timeout=...) is called: self.timeout is set
\* and adb_get_device(timeout=timeout) is entered.
GetDeviceInit ==
    /\ NoConnection
    /\ production = [d \in Devices |-> FALSE]
    /\ adbd_root = [d \in Devices |-> FALSE]
    /\ NoCall
    /\ NoLaunch
    /\ NoListing
    /\ NoConnect
    /\ timeout \in {NoTimeout} \cup (0..MaxTimeout)
    /\ self_timeout = IF timeout # NoTimeout THEN timeout ELSE default_timeout
    /\ attached \in SUBSET Serials
    /\ gd_output = <<>>
    /\ elapsed = 0
    /\ polls = 0
    /\ gd_pc = "start_server"
    /\ gd_res = Got("none", "", 0)

\* adb_command(None, 'start-server') and start = time.time().
StartServer ==
    /\ gd_pc = "start_server"
    /\ gd_pc' = "poll"
    /\ elapsed' = 0
    /\ UNCHANGED <<timeout, self_timeout, attached, gd_output, polls, gd_res>>
    /\ UNCHANGED outside_gd

\* A device is attached to or detached from the host.
Replug ==
    /\ gd_pc \in {"poll", "sleep"}
    /\ \E s \in Serials :
        attached' = IF s \in attached THEN attached \ {s}
                                      ELSE attached \cup {s}
    /\ UNCHANGED <<timeout, self_timeout, gd_output, elapsed, polls, gd_pc,
                   gd_res>>
    /\ UNCHANGED outside_gd

\* output = adb_command(None, "devices").splitlines(); the command takes no
\* time or one second.
Poll ==
    /\ gd_pc = "poll"
    /\ gd_output' = splitlines(DevicesOutput(attached))
    /\ polls' = polls + 1
    /\ \E took \in {0, 1} : elapsed' = elapsed + took
    /\ gd_pc' = "branch"
    /\ UNCHANGED <<timeout, self_timeout, attached, gd_res>>
    /\ UNCHANGED outside_gd

\* The branches on output_length: one device is returned, more than one
\* raise HostError, none raises HostError when the timeout has elapsed and
\* goes to sleep otherwise.
Branch ==
    /\ gd_pc = "branch"
    /\ LET output_length == Len(gd_output)
           late == TimedOut(timeout, elapsed)
       IN IF output_length = 3
          THEN /\ gd_res' = Got("return", FirstField(gd_output[2])[1], 0)
               /\ gd_pc' = "done"
          ELSE IF output_length > 3
          THEN /\ gd_res' = Got("HostError", "", output_length - 2)
               /\ gd_pc' = "done"
          ELSE IF late.raised # ""
          THEN /\ gd_res' = Got(late.raised, "", 0)
               /\ gd_pc' = "done"
          ELSE IF late.value
          THEN /\ gd_res' = Got("HostError", "", 0)
               /\ gd_pc' = "done"
          ELSE /\ gd_pc' = "sleep"
               /\ UNCHANGED gd_res
    /\ UNCHANGED <<timeout, self_timeout, attached, gd_output, elapsed, polls>>
    /\ UNCHANGED outside_gd

\* time.sleep(1) and back to `while True:`.
SleepSecond ==
    /\ gd_pc = "sleep"
    /\ elapsed' = elapsed + 1
    /\ gd_pc' = "poll"
    /\ UNCHANGED <<timeout, self_timeout, attached, gd_output, polls, gd_res>>
    /\ UNCHANGED outside_gd

GetDeviceNext == StartServer \/ Replug \/ Poll \/ Branch \/ SleepSecond

GetDeviceSpec == GetDeviceInit /\ [][GetDeviceNext]_vars

\* C31: adb_get_device ends in one of three ways: with one device listed it
\* returns its serial; with N > 1 listed it raises HostError naming N; with
\* none listed it raises HostError, and only once more than self.timeout
\* (the caller's timeout, or the default one) has elapsed.
C31_GetDeviceOutcomes ==
    gd_pc = "done" =>
        LET n == Len(gd_output) - 2 IN
        /\ n = 1 =>
               /\ gd_res.kind = "return"
               /\ <<gd_res.serial>> = FirstField(gd_output[2])
        /\ n > 1 => gd_res = Got("HostError", "", n)
        /\ n = 0 =>
               gd_res = Got("HostError", "", 0) /\ elapsed > self_timeout

====
